---- MODULE Spec2Model ----
(***************************************************************************)
(* The NESDev wiki command-line tools (tool/nesdev.py, tool/nesdev_pages.py)*)
(* as a state machine: the on-disk response cache, the saved documents, the *)
(* commands of both scripts and the page walk of `list`.                    *)
(*                                                                          *)
(* Text is a sequence of string atoms; the atom NL is one newline character *)
(* and no other atom contains a newline.  A JSON object is a record; a file *)
(* is the sequence of chunks json.dump has written to it so far.            *)
(***************************************************************************)
EXTENDS Integers, Sequences, FiniteSets, TLC

VARIABLES
    cache,          \* CACHE_DIR: file name -> chunks written to the file
    docs,           \* output directory: slug -> document text
    status,         \* "none" | "walking" | "exited" | "killed": the last invocation
    runs,           \* invocations started so far
    cmd,            \* the last invocation's script, command and arguments
    raised,         \* the exception that ended it ("none": returned normally)
    exitCode,       \* its exit code (meaningful when status = "exited")
    written,        \* the slug of the document it wrote (empty: none)
    prevCall,       \* the cached_request call before the last one
    lastCall,       \* the last cached_request call
    netCalls,       \* network requests the invocation issued (saturating)
    netFails,       \* of these, the ones that failed (saturating)
    limit,          \* iter_pages: argument
    batch_size,     \* iter_pages: argument
    refresh,        \* iter_pages: argument
    prefix,         \* iter_pages: argument
    fetched,        \* iter_pages: local
    continue_token, \* iter_pages: local
    gap_limit,      \* iter_pages: local, the size the last request asked for
    data,           \* iter_pages: local, the last response
    yielded,        \* the records the generator has yielded, each with its batch
    nreq,           \* cached_request calls of the walk (saturating)
    allFull,        \* every response of the walk held as many pages as asked for
    endedEarly      \* a response without a continuation ended the walk below limit

vars == << cache, docs, status, runs, cmd, raised, exitCode, written, prevCall,
           lastCall, netCalls, netFails, limit, batch_size, refresh, prefix, fetched,
           continue_token, gap_limit, data, yielded, nreq, allFull,
           endedEarly >>

walkVars == << limit, batch_size, refresh, prefix, fetched, continue_token, gap_limit,
               data, yielded, nreq, allFull, endedEarly >>

----------------------------------------------------------------------------
(* Bounds of the model and constants of the program.                       *)

MaxRuns == 2
MaxLimit == 3
MaxPages == 3
MaxMarkupLen == 1
MaxResults == 1
MaxWalks == 1
MAX_BATCH_SIZE == 500

\* Saturation point of the per-invocation counters: above every count a
\* property below speaks about.
CountCap == MaxLimit + 2

Bump(n) == IF n < CountCap THEN n + 1 ELSE n

Min(a, b) == IF a < b THEN a ELSE b

Max(a, b) == IF a > b THEN a ELSE b

NL == "\n"

None == [none |-> TRUE]

----------------------------------------------------------------------------
(* Request descriptors and cache keys.                                     *)

\* The parameter names the tools send, in alphabetical order: the order in
\* which Python's sorted() puts the (name, value) items.
ParamNames ==
    << "action", "continue", "format", "gapcontinue", "gaplimit", "gapprefix",
       "generator", "list", "page", "prop", "srlimit", "srsearch" >>

HasParam(params, name) == \E i \in DOMAIN params : params[i][1] = name

ParamValue(params, name) ==
    params[CHOOSE i \in DOMAIN params : params[i][1] = name][2]

\* dict.update(other): a name already present keeps its place and takes the
\* new value, a new name is appended.
RECURSIVE DictUpdate(_, _)
DictUpdate(params, other) ==
    IF other = << >> THEN params
    ELSE LET item == Head(other)
             set  == IF HasParam(params, item[1])
                     THEN [i \in DOMAIN params |->
                              IF params[i][1] = item[1] THEN item ELSE params[i]]
                     ELSE Append(params, item)
         IN DictUpdate(set, Tail(other))

\* sorted(params.items()): the names of a descriptor are distinct, so the
\* items come in the alphabetical order of their names.
SortedItems(params) ==
    LET present == SelectSeq(ParamNames, LAMBDA name : HasParam(params, name))
    IN [k \in DOMAIN present |-> << present[k], ParamValue(params, present[k]) >>]

\* The digest of the serialised items in insertion order.
cache_key_InsertionOrder(params) == << "sha1", params, ".json" >>

\* The file name: the digest of the serialised sorted items.  The digest is
\* modelled as injective on the serialisation.
cache_key(params) == << "sha1", SortedItems(params), ".json" >>

----------------------------------------------------------------------------
(* json.dump and json.load on a cache file.                                *)

BodyKeys == << "batchcomplete", "continue", "error", "parse", "query" >>

\* The chunks json.dump writes for a decoded body, in writing order.
Encode(body) ==
    LET keys == SelectSeq(BodyKeys, LAMBDA k : k \in DOMAIN body)
    IN << << "{" >> >> \o [i \in DOMAIN keys |-> << keys[i], body[keys[i]] >>]
                       \o << << "}" >> >>

\* Whether json.load accepts the file: an opening brace, members, a closing
\* brace.
WellFormed(file) ==
    /\ Len(file) >= 2
    /\ Len(file[1]) = 1 /\ file[1][1] = "{"
    /\ Len(file[Len(file)]) = 1 /\ file[Len(file)][1] = "}"
    /\ \A i \in 2..(Len(file) - 1) : Len(file[i]) = 2

Decode(file) ==
    [k \in {file[i][1] : i \in 2..(Len(file) - 1)} |->
        file[CHOOSE i \in 2..(Len(file) - 1) : file[i][1] = k][2]]

----------------------------------------------------------------------------
(* The remote MediaWiki API: what a request may be answered with.          *)

TermValues == { "ppu" }

\* The wiki's pages in generator=allpages order, by position.
PageTitle(i) == << "Page", " ", ToString(i) >>

\* The search ranking: the first MaxResults pages.
TitleList == [i \in 1..MaxResults |-> PageTitle(i)]

TitleValues == { TitleList[i] : i \in DOMAIN TitleList }

Texts(n) == UNION { [1..k -> { "x", NL }] : k \in 0..n }

MarkupValues == Texts(MaxMarkupLen)

ErrorBody == [error |-> [code |-> "badvalue", info |-> "Unrecognized value"]]

EmptyBody == [batchcomplete |-> TRUE]

\* list=search: the first titles of the ranking, at most srlimit of them, or
\* a body with no query member.
SearchResponses(params) ==
    { [batchcomplete |-> TRUE,
       query |-> [search |-> [i \in 1..n |-> [title |-> TitleList[i]]]]] :
         n \in 0..Min(Len(TitleList), Max(0, ParamValue(params, "srlimit"))) }
    \cup { EmptyBody }

PageIdOf(title) == CHOOSE i \in DOMAIN TitleList : TitleList[i] = title

\* action=parse: the page with its content, a parse member without the
\* content, or a body with no parse member.
ParseResponses(params) ==
    LET title == ParamValue(params, "page")
        prop  == ParamValue(params, "prop")
        head  == [title |-> title, pageid |-> PageIdOf(title), revid |-> 10 + PageIdOf(title)]
    IN { [parse |-> head @@ (prop :> ("*" :> m))] : m \in MarkupValues }
       \cup { [parse |-> head], EmptyBody }

\* The wiki's pages in generator=allpages order.  Page ids run against that
\* order, odd positions carry the generator index, the first page has no
\* touched member.
PageAt(i) ==
    [pageid |-> MaxPages + 1 - i, title |-> PageTitle(i)]
    @@ (IF i % 2 = 1 THEN [index |-> i] ELSE << >>)
    @@ (IF i # 1 THEN [touched |-> "2024-01-01T00:00:00Z"] ELSE << >>)

ContinueOf(off, phase) ==
    << << "gapcontinue", [off |-> off, phase |-> phase] >>, << "continue", "gap||" >> >>

RequestCursor(params) ==
    IF HasParam(params, "gapcontinue") THEN ParamValue(params, "gapcontinue")
    ELSE [off |-> 0, phase |-> 0]

\* generator=allpages answered in full: the next gaplimit pages after the
\* cursor, keyed by page id (the members come in page id order), and a
\* continuation while pages remain.
ListFull(params) ==
    LET g    == ParamValue(params, "gaplimit")
        cur  == RequestCursor(params)
        last == Max(cur.off, Min(cur.off + g, MaxPages))
        n    == last - cur.off
    IN (IF n > 0 THEN [query |-> [pages |-> [j \in 1..n |-> PageAt(last + 1 - j)]]]
        ELSE << >>)
       @@ (IF last < MaxPages THEN [continue |-> ContinueOf(last, cur.phase)]
           ELSE [batchcomplete |-> TRUE])

\* generator=allpages answered with no page and a continuation that differs
\* from the one sent.
ListStalled(params) ==
    LET cur == RequestCursor(params)
    IN [continue |-> ContinueOf(cur.off, 1 - cur.phase)]

ListResponses(params) == { ListFull(params), ListStalled(params) }

Responses(params) ==
    IF HasParam(params, "list") THEN SearchResponses(params)
    ELSE IF HasParam(params, "page") THEN ParseResponses(params)
    ELSE ListResponses(params)

\* What can happen to one call of cached_request: the request fails in
\* transport, the status is an HTTP error, the body is not JSON, the body
\* arrives (possibly an error envelope), or a KeyboardInterrupt or the death
\* of the process ends the call, before the write or after `cut` chunks of it.
Outcomes(params) ==
    { [kind |-> k, body |-> None, cut |-> 0] :
        k \in { "transport", "http", "badjson", "interrupt" } }
    \cup { [kind |-> "ok", body |-> b, cut |-> 0] :
        b \in Responses(params) \cup { ErrorBody } }
    \cup UNION { { [kind |-> k, body |-> b, cut |-> c] :
                     k \in { "interrupt_write", "crash_write" },
                     c \in 0..(Len(Encode(b)) - 1) } : b \in Responses(params) }

----------------------------------------------------------------------------
(* cached_request                                                           *)

CallResult(c, key, refr, existed, net, st, body) ==
    [cache |-> c, key |-> key, refresh |-> refr, existed |-> existed,
     net |-> net, status |-> st, data |-> body]

NoCall == CallResult(<< >>, << >>, FALSE, FALSE, FALSE, "none", None)

\* The cache file exists and refresh is off: the body json.load reads from
\* it, or the ValueError it raises on a file that is no JSON document.
ReadEntry(c, key, refr, existed, o) ==
    IF o.kind = "interrupt"
    THEN CallResult(c, key, refr, existed, FALSE, "KeyboardInterrupt", None)
    ELSE IF WellFormed(c[key])
    THEN CallResult(c, key, refr, existed, FALSE, "ok", Decode(c[key]))
    ELSE CallResult(c, key, refr, existed, FALSE, "ValueError", None)

\* FetchLive with the body written to the cache file before the error
\* envelope is looked at.
FetchLive_WriteBeforeCheck(c, key, refr, existed, o) ==
    CASE o.kind = "interrupt" ->
           CallResult(c, key, refr, existed, TRUE, "KeyboardInterrupt", None)
      [] o.kind \in { "transport", "http", "badjson" } ->
           CallResult(c, key, refr, existed, TRUE, "RequestException", None)
      [] o.kind = "ok" /\ "error" \in DOMAIN o.body ->
           CallResult((key :> Encode(o.body)) @@ c, key, refr, existed,
                      TRUE, "WikiError", None)
      [] o.kind = "ok" /\ "error" \notin DOMAIN o.body ->
           CallResult((key :> Encode(o.body)) @@ c, key, refr, existed,
                      TRUE, "ok", o.body)
      [] o.kind = "interrupt_write" ->
           CallResult((key :> SubSeq(Encode(o.body), 1, o.cut)) @@ c, key,
                      refr, existed, TRUE, "KeyboardInterrupt", None)
      [] o.kind = "crash_write" ->
           CallResult((key :> SubSeq(Encode(o.body), 1, o.cut)) @@ c, key,
                      refr, existed, TRUE, "killed", None)

\* FetchLive with the write skipped when the cache file is already there.
FetchLive_KeepExisting(c, key, refr, existed, o) ==
    CASE o.kind = "interrupt" ->
           CallResult(c, key, refr, existed, TRUE, "KeyboardInterrupt", None)
      [] o.kind \in { "transport", "http", "badjson" } ->
           CallResult(c, key, refr, existed, TRUE, "RequestException", None)
      [] o.kind = "ok" /\ "error" \in DOMAIN o.body ->
           CallResult(c, key, refr, existed, TRUE, "WikiError", None)
      [] o.kind = "ok" /\ "error" \notin DOMAIN o.body ->
           CallResult(IF existed THEN c ELSE (key :> Encode(o.body)) @@ c, key,
                      refr, existed, TRUE, "ok", o.body)
      [] o.kind = "interrupt_write" ->
           CallResult(IF existed THEN c
                      ELSE (key :> SubSeq(Encode(o.body), 1, o.cut)) @@ c, key,
                      refr, existed, TRUE, "KeyboardInterrupt", None)
      [] o.kind = "crash_write" ->
           CallResult(IF existed THEN c
                      ELSE (key :> SubSeq(Encode(o.body), 1, o.cut)) @@ c, key,
                      refr, existed, TRUE, "killed", None)

\* The live fetch: raise_for_status, response.json(), the error envelope,
\* then the write of the body to the cache file, which open("w") truncates
\* before json.dump writes chunk after chunk.
FetchLive(c, key, refr, existed, o) ==
    CASE o.kind = "interrupt" ->
           CallResult(c, key, refr, existed, TRUE, "KeyboardInterrupt", None)
      [] o.kind \in { "transport", "http", "badjson" } ->
           CallResult(c, key, refr, existed, TRUE, "RequestException", None)
      [] o.kind = "ok" /\ "error" \in DOMAIN o.body ->
           CallResult(c, key, refr, existed, TRUE, "WikiError", None)
      [] o.kind = "ok" /\ "error" \notin DOMAIN o.body ->
           CallResult((key :> Encode(o.body)) @@ c, key, refr, existed,
                      TRUE, "ok", o.body)
      [] o.kind = "interrupt_write" ->
           CallResult((key :> SubSeq(Encode(o.body), 1, o.cut)) @@ c, key,
                      refr, existed, TRUE, "KeyboardInterrupt", None)
      [] o.kind = "crash_write" ->
           CallResult((key :> SubSeq(Encode(o.body), 1, o.cut)) @@ c, key,
                      refr, existed, TRUE, "killed", None)

\* cached_request with the refresh test inverted: the file is read when
\* refresh is on.
cached_request_InvertedRefresh(c, params, refr, o) ==
    LET key     == cache_key(params)
        existed == key \in DOMAIN c
    IN IF refr /\ existed
       THEN ReadEntry(c, key, refr, existed, o)
       ELSE FetchLive(c, key, refr, existed, o)

\* The call on cache directory c with outcome o.  status is "ok" (data is
\* the returned body) or the exception that left the function; "killed" is
\* the death of the process.
cached_request(c, params, refr, o) ==
    LET key     == cache_key(params)
        existed == key \in DOMAIN c
    IN IF ~refr /\ existed
       THEN ReadEntry(c, key, refr, existed, o)
       ELSE FetchLive(c, key, refr, existed, o)

----------------------------------------------------------------------------
(* The document writer.                                                     *)

title_to_slug(title) ==
    [i \in DOMAIN title |-> IF title[i] = " " THEN "_" ELSE title[i]]

RECURSIVE JoinLines(_)
JoinLines(lines) ==
    IF lines = << >> THEN << >>
    ELSE IF Len(lines) = 1 THEN lines[1]
    ELSE lines[1] \o << NL >> \o JoinLines(Tail(lines))

\* metadata: the items of the dict in insertion order, each with its key,
\* its value as text, and whether the value is None.
format_metadata_wikitext(metadata) ==
    LET kept == SelectSeq(metadata, LAMBDA item : ~item.none)
    IN JoinLines(<< << "{{Page metadata" >> >>
                 \o [i \in DOMAIN kept |->
                        << " | ", kept[i].key, " = " >> \o kept[i].value]
                 \o << << "}}" >> >>)

\* str.rstrip("\n")
RECURSIVE RStripNewlines(_)
RStripNewlines(text) ==
    IF text # << >> /\ text[Len(text)] = NL
    THEN RStripNewlines(SubSeq(text, 1, Len(text) - 1))
    ELSE text

Item(key, value) == [key |-> key, value |-> value, none |-> FALSE]

Optional(key, rec, field) ==
    IF field \in DOMAIN rec
    THEN [key |-> key, none |-> FALSE,
          value |-> IF field = "title" THEN rec[field] ELSE << ToString(rec[field]) >>]
    ELSE [key |-> key, none |-> TRUE, value |-> << >>]

Today == << "2026-11-01" >>

DefaultAuthor == << "NESDev contributors" >>

\* The text both save commands write for the parsed page.
Document(parsed, title, wikitext, author, date) ==
    LET shown == IF "title" \in DOMAIN parsed THEN parsed.title ELSE title
        metadata ==
            << Optional("title", parsed, "title"),
               Item("author", author),
               Item("date", date),
               Item("source", << "https://www.nesdev.org/wiki/" >> \o title_to_slug(shown)),
               Optional("pageid", parsed, "pageid"),
               Optional("revid", parsed, "revid") >>
        front_matter == format_metadata_wikitext(metadata)
        content == RStripNewlines(wikitext)
    IN front_matter \o << NL, NL >> \o content \o << NL >>

\* fetch_wikitext on the result r of its cached_request call: the exception
\* it raises ("none": it returns parsed and wikitext).
fetch_wikitext(r) ==
    IF r.status # "ok" THEN [status |-> r.status, parsed |-> None, wikitext |-> << >>]
    ELSE IF "parse" \notin DOMAIN r.data
    THEN [status |-> "WikiError", parsed |-> None, wikitext |-> << >>]
    ELSE IF "wikitext" \notin DOMAIN r.data.parse
    THEN [status |-> "WikiError", parsed |-> r.data.parse, wikitext |-> << >>]
    ELSE [status |-> "none", parsed |-> r.data.parse,
          wikitext |-> r.data.parse.wikitext["*"]]

ParseParams(title, prop) ==
    << << "action", "parse" >>, << "format", "json" >>, << "page", title >>,
       << "prop", prop >> >>

SearchParams(term, lim) ==
    << << "action", "query" >>, << "format", "json" >>, << "list", "search" >>,
       << "srsearch", term >>, << "srlimit", lim >> >>

\* save_wikitext_document and command_save of nesdev_pages.py: the call's
\* result r, the slug argument (empty: none given), author and date.
save_wikitext_document(files, r, title, slugArg, author, date) ==
    LET got  == fetch_wikitext(r)
        name == IF slugArg # << >> THEN slugArg
                ELSE IF "title" \in DOMAIN got.parsed THEN got.parsed.title ELSE title
        slug == title_to_slug(name)
    IN IF got.status # "none"
       THEN [status |-> got.status, docs |-> files, written |-> << >>]
       ELSE [status |-> "none", written |-> slug,
             docs |-> (slug :> Document(got.parsed, title, got.wikitext, author, date))
                      @@ files]

----------------------------------------------------------------------------
(* main of both scripts: the exit code for the way the command ended.       *)

\* main with the interrupt handled like the other exceptions.
main_InterruptAsError(ended) ==
    CASE ended = "none" -> 0
      [] ended \in { "RequestException", "WikiError", "KeyboardInterrupt" } -> 1
      [] OTHER -> 1

main(ended) ==
    CASE ended = "none" -> 0
      [] ended \in { "RequestException", "WikiError" } -> 1
      [] ended = "KeyboardInterrupt" -> 130
      [] OTHER -> 1    \* not caught: the interpreter prints the traceback

----------------------------------------------------------------------------
(* Inputs of the commands.                                                  *)

SearchLimitValues == { 20 }

PickValues ==
    { [given |-> FALSE, n |-> 0] }
    \cup { [given |-> TRUE, n |-> n] : n \in -1..(Len(TitleList) + 1) }

SaveOptionValues ==
    { [slug |-> << >>, author |-> DefaultAuthor, date |-> << >>],
      [slug |-> << "my", " ", "copy" >>, author |-> << "X" >>,
       date |-> << "2024-01-01" >>] }

----------------------------------------------------------------------------
(* The state after construction and the bookkeeping every command shares.   *)

Note(r) ==
    [key |-> r.key, refresh |-> r.refresh, existed |-> r.existed, net |-> r.net,
     status |-> r.status, data |-> r.data]

Failed(r) == r.net /\ r.status \in { "RequestException", "WikiError" }

NoWalk ==
    /\ limit' = 0
    /\ batch_size' = 0
    /\ refresh' = FALSE
    /\ prefix' = ""
    /\ fetched' = 0
    /\ continue_token' = << >>
    /\ gap_limit' = 0
    /\ data' = None
    /\ yielded' = << >>
    /\ nreq' = 0
    /\ allFull' = TRUE
    /\ endedEarly' = FALSE

Init ==
    /\ cache = << >>
    /\ docs = << >>
    /\ status = "none"
    /\ runs = 0
    /\ cmd = [script |-> "none", name |-> "none"]
    /\ raised = "none"
    /\ exitCode = 0
    /\ written = << >>
    /\ prevCall = Note(NoCall)
    /\ lastCall = Note(NoCall)
    /\ netCalls = 0
    /\ netFails = 0
    /\ limit = 0
    /\ batch_size = 0
    /\ refresh = FALSE
    /\ prefix = ""
    /\ fetched = 0
    /\ continue_token = << >>
    /\ gap_limit = 0
    /\ data = None
    /\ yielded = << >>
    /\ nreq = 0
    /\ allFull = TRUE
    /\ endedEarly = FALSE

\* A new process starts: none is running and the budget of runs allows it.
CanStart ==
    /\ status # "walking"
    /\ runs < MaxRuns

Start(c) ==
    /\ runs' = runs + 1
    /\ cmd' = c

\* The process ends the way `ended` says: the exit code is main's, or the
\* kill signal's when the process died.
End(ended) ==
    /\ raised' = ended
    /\ status' = IF ended = "killed" THEN "killed" ELSE "exited"
    /\ exitCode' = IF ended = "killed" THEN 128 + 9 ELSE main(ended)

\* A command that makes the one call r and then ends the way `ended` says.
OneCall(r, ended) ==
    /\ cache' = r.cache
    /\ prevCall' = lastCall
    /\ lastCall' = Note(r)
    /\ netCalls' = IF r.net THEN 1 ELSE 0
    /\ netFails' = IF Failed(r) THEN 1 ELSE 0
    /\ End(ended)

AsEnded(st) == IF st = "ok" THEN "none" ELSE st

----------------------------------------------------------------------------
(* The commands of nesdev.py and nesdev_pages.py, list apart.               *)

\* command_search of either script: one request, the results are printed.
command_search(script) ==
    /\ CanStart
    /\ \E term \in TermValues, lim \in SearchLimitValues, refr \in BOOLEAN :
      LET params == SearchParams(term, lim)
      IN \E o \in Outcomes(params) :
           LET r == cached_request(cache, params, refr, o)
           IN /\ Start([script |-> script, name |-> "search", refresh |-> refr])
              /\ OneCall(r, AsEnded(r.status))
              /\ docs' = docs
              /\ written' = << >>
              /\ NoWalk

NesdevSearch == command_search("nesdev")

PagesSearch == command_search("nesdev_pages")

\* command_fetch: one parse request, the content is printed.
command_fetch ==
    /\ CanStart
    /\ \E title \in TitleValues, fmt \in { "html", "wikitext" }, refr \in BOOLEAN :
      LET params == ParseParams(title, IF fmt = "wikitext" THEN "wikitext" ELSE "text")
      IN \E o \in Outcomes(params) :
           LET r == cached_request(cache, params, refr, o)
               ended == IF r.status # "ok" THEN r.status
                        ELSE IF "parse" \notin DOMAIN r.data THEN "WikiError"
                        ELSE "none"
           IN /\ Start([script |-> "nesdev_pages", name |-> "fetch", refresh |-> refr])
              /\ OneCall(r, ended)
              /\ docs' = docs
              /\ written' = << >>
              /\ NoWalk

\* command_save of either script.  nesdev.py takes no options: its author
\* is the default and its date is today's.
command_save(script, options) ==
    /\ CanStart
    /\ \E title \in TitleValues, opt \in options, refr \in BOOLEAN :
      LET params == ParseParams(title, "wikitext")
      IN \E o \in Outcomes(params) :
           LET r == cached_request(cache, params, refr, o)
               s == save_wikitext_document(docs, r, title, opt.slug, opt.author,
                                           IF opt.date # << >> THEN opt.date ELSE Today)
           IN /\ Start([script |-> script, name |-> "save", refresh |-> refr])
              /\ OneCall(r, s.status)
              /\ docs' = s.docs
              /\ written' = s.written
              /\ NoWalk

NesdevSave ==
    command_save("nesdev", { [slug |-> << >>, author |-> DefaultAuthor, date |-> << >>] })

PagesSave == command_save("nesdev_pages", SaveOptionValues)

\* command_grab: the search, then for a pick in range the save of that
\* result.
command_grab ==
    /\ CanStart
    /\ \E term \in TermValues, lim \in SearchLimitValues, pick \in PickValues,
       refr \in BOOLEAN :
      LET params == SearchParams(term, lim)
          c == [script |-> "nesdev", name |-> "grab", refresh |-> refr, pick |-> pick]
      IN \E o \in Outcomes(params) :
           LET r == cached_request(cache, params, refr, o)
               results == IF r.status = "ok" /\ "query" \in DOMAIN r.data
                          THEN r.data.query.search ELSE << >>
               index == pick.n - 1
           IN IF r.status # "ok" \/ results = << >> \/ ~pick.given
                 \/ index < 0 \/ index >= Len(results)
              THEN /\ Start(c)
                   /\ OneCall(r, IF r.status # "ok" THEN r.status
                                 ELSE IF results = << >> \/ ~pick.given THEN "none"
                                 ELSE "WikiError")
                   /\ docs' = docs
                   /\ written' = << >>
                   /\ NoWalk
              ELSE LET title == results[index + 1].title
                       params2 == ParseParams(title, "wikitext")
                   IN \E o2 \in Outcomes(params2) :
                        LET r2 == cached_request(r.cache, params2, refr, o2)
                            s == save_wikitext_document(docs, r2, title, << >>,
                                                        DefaultAuthor, Today)
                        IN /\ Start(c)
                           /\ cache' = r2.cache
                           /\ prevCall' = Note(r)
                           /\ lastCall' = Note(r2)
                           /\ netCalls' = (IF r.net THEN 1 ELSE 0) + (IF r2.net THEN 1 ELSE 0)
                           /\ netFails' = IF Failed(r2) THEN 1 ELSE 0
                           /\ End(s.status)
                           /\ docs' = s.docs
                           /\ written' = s.written
                           /\ NoWalk

\* nesdev.py with no command: main prints the help and returns 1.
NesdevNoCommand ==
    /\ CanStart
    /\ Start([script |-> "nesdev", name |-> "help"])
    /\ raised' = "none"
    /\ status' = "exited"
    /\ exitCode' = 1
    /\ netCalls' = 0
    /\ netFails' = 0
    /\ written' = << >>
    /\ NoWalk
    /\ UNCHANGED << cache, docs, prevCall, lastCall >>

Next ==
    \/ NesdevSearch
    \/ NesdevSave
    \/ command_grab
    \/ NesdevNoCommand
    \/ PagesSearch
    \/ command_fetch
    \/ PagesSave

Spec == Init /\ [][Next]_vars

----------------------------------------------------------------------------
(* list of nesdev_pages.py: clamp_batch_size and the walk of iter_pages.    *)

DefaultLimit == 50

\* clamp_batch_size without the upper bound.
clamp_batch_size_NoCeiling(batch) == Max(1, batch)

clamp_batch_size(batch) == Min(Max(1, batch), MAX_BATCH_SIZE)

\* The sort key: page.get("index", page["pageid"]).
SortKey(page) == IF "index" \in DOMAIN page THEN page.index ELSE page.pageid

\* The place sorted() gives the page at position i: behind the pages of
\* lower key and behind the pages of equal key that come before it.
PagePlace(pages, i) ==
    1 + Cardinality({ j \in DOMAIN pages :
                        \/ SortKey(pages[j]) < SortKey(pages[i])
                        \/ SortKey(pages[j]) = SortKey(pages[i]) /\ j < i })

\* The pages in the order the response holds them.
sorted_pages_AsReceived(pages) == pages

\* sorted(pages.values(), key=...): ascending in the key, pages of equal
\* key in the order the response holds them.
sorted_pages(pages) ==
    [k \in DOMAIN pages |->
        pages[CHOOSE i \in DOMAIN pages : PagePlace(pages, i) = k]]

\* data.get("query", {}).get("pages", {}).values()
PagesOf(body) ==
    IF "query" \in DOMAIN body /\ "pages" \in DOMAIN body.query
    THEN body.query.pages ELSE << >>

\* data.get("continue"): empty when the member is absent.
TokenOf(body) == IF "continue" \in DOMAIN body THEN body.continue ELSE << >>

\* The record iter_pages yields for a page.
PageRecord(page) ==
    [pageid |-> page.pageid, title |-> page.title,
     touched |-> IF "touched" \in DOMAIN page THEN page.touched ELSE "unknown"]

\* The request descriptor of one batch without the params.update of the
\* continuation.
ListParams_NoContinuation(pre, gap, token) ==
    LET base == << << "action", "query" >>, << "format", "json" >>,
                   << "prop", "info" >>, << "generator", "allpages" >>,
                   << "gaplimit", gap >> >>
    IN IF pre # "" THEN Append(base, << "gapprefix", pre >>) ELSE base

\* The request descriptor of one batch.  gaplimit is the decimal string of
\* the number, written here as the number it denotes.
ListParams(pre, gap, token) ==
    LET base == << << "action", "query" >>, << "format", "json" >>,
                   << "prop", "info" >>, << "generator", "allpages" >>,
                   << "gaplimit", gap >> >>
        withPrefix == IF pre # "" THEN Append(base, << "gapprefix", pre >>) ELSE base
    IN IF token # << >> THEN DictUpdate(withPrefix, token) ELSE withPrefix

ListLimitValues == (0..MaxLimit) \cup { MAX_BATCH_SIZE + 1 }

BatchSizeValues == { 0 } \cup (1..(MaxLimit - 1)) \cup { MAX_BATCH_SIZE + 1 }

PrefixValues == { "", "Page" }

\* main up to the call of command_list: the batch size is clamped, then
\* iter_pages starts with nothing fetched and no continuation.
BeginWalk(c, lim, batch, refr, pre) ==
    /\ Start(c)
    /\ status' = "walking"
    /\ raised' = "none"
    /\ exitCode' = 0
    /\ written' = << >>
    /\ netCalls' = 0
    /\ netFails' = 0
    /\ limit' = lim
    /\ batch_size' = clamp_batch_size(batch)
    /\ refresh' = refr
    /\ prefix' = pre
    /\ fetched' = 0
    /\ continue_token' = << >>
    /\ gap_limit' = 0
    /\ data' = None
    /\ yielded' = << >>
    /\ nreq' = 0
    /\ allFull' = TRUE
    /\ endedEarly' = FALSE
    /\ UNCHANGED << cache, docs, prevCall, lastCall >>

\* A new walk starts: no process is running and the budget of walks allows it.
CanWalk ==
    /\ status # "walking"
    /\ runs < MaxWalks

\* nesdev_pages.py list with its options.
PagesList ==
    /\ CanWalk
    /\ \E lim \in ListLimitValues, batch \in BatchSizeValues, refr \in BOOLEAN,
          pre \in PrefixValues :
         BeginWalk([script |-> "nesdev_pages", name |-> "list", refresh |-> refr,
                    batch_size |-> batch],
                   lim, batch, refr, pre)

\* nesdev_pages.py with no command: list with the defaults.
PagesNoCommand ==
    /\ CanWalk
    /\ \E refr \in BOOLEAN :
         BeginWalk([script |-> "nesdev_pages", name |-> "list", refresh |-> refr,
                    batch_size |-> MAX_BATCH_SIZE],
                   DefaultLimit, MAX_BATCH_SIZE, refr, "")

\* One turn of the loop of iter_pages: the request for the next batch, the
\* records of its pages, the continuation.  A call that raises ends the
\* invocation; so does a response without a continuation.
WalkStep ==
    /\ status = "walking"
    /\ fetched < limit
    /\ \E gap \in { Min(batch_size, limit - fetched) } :
       \E params \in { ListParams(prefix, gap, continue_token) } :
       \E o \in Outcomes(params) :
       \E r \in { cached_request(cache, params, refresh, o) } :
          /\ cache' = r.cache
          /\ prevCall' = lastCall
          /\ lastCall' = Note(r)
          /\ netCalls' = IF r.net THEN Bump(netCalls) ELSE netCalls
          /\ netFails' = IF Failed(r) THEN Bump(netFails) ELSE netFails
          /\ gap_limit' = gap
          /\ nreq' = Bump(nreq)
          /\ IF r.status # "ok"
             THEN /\ End(r.status)
                  /\ UNCHANGED << fetched, continue_token, data, yielded,
                                  allFull, endedEarly >>
             ELSE \E sp \in { sorted_pages(PagesOf(r.data)) } :
                  \E token \in { TokenOf(r.data) } :
                    LET n == Min(Len(sp), limit - fetched)
                    IN /\ data' = r.data
                       /\ yielded' = yielded \o
                             [i \in 1..n |-> PageRecord(sp[i]) @@ [batch |-> Bump(nreq)]]
                       /\ fetched' = fetched + n
                       /\ continue_token' = token
                       /\ allFull' = (allFull /\ Len(sp) = gap)
                       /\ IF token = << >>
                          THEN /\ End("none")
                               /\ endedEarly' = (fetched + n < limit)
                          ELSE UNCHANGED << status, raised, exitCode, endedEarly >>
    /\ UNCHANGED << docs, runs, cmd, written, limit, batch_size, refresh, prefix >>

\* The loop condition fails: iter_pages is exhausted, output_list prints the
\* records and main returns 0.
WalkEnd ==
    /\ status = "walking"
    /\ fetched >= limit
    /\ End("none")
    /\ UNCHANGED << cache, docs, runs, cmd, written, prevCall, lastCall, netCalls,
                    netFails, walkVars >>

WalkNext ==
    \/ PagesList
    \/ PagesNoCommand
    \/ WalkStep
    \/ WalkEnd

WalkSpec == Init /\ [][WalkNext]_vars

\* The process is scheduled while it runs: a turn of the loop that can be
\* taken is taken, and so is the return.
FairWalkSpec == WalkSpec /\ WF_vars(WalkStep) /\ WF_vars(WalkEnd)

----------------------------------------------------------------------------
(* cached_request called for two descriptors that hold the same items.      *)

\* The descriptors the tools build, in the order the code inserts the items.
BaseDescriptors ==
    { SearchParams(term, lim) : term \in TermValues, lim \in SearchLimitValues }
    \cup { ParseParams(title, "wikitext") : title \in TitleValues }

\* The dicts that hold the items of d, in every insertion order.
Reorderings(d) ==
    { [i \in DOMAIN d |-> d[p[i]]] : p \in Permutations(DOMAIN d) }

\* Two descriptors with the same items: one as the code builds it, one in
\* any insertion order.
KeyInit ==
    /\ cache = << >>
    /\ docs = << >>
    /\ status = "none"
    /\ runs = 0
    /\ \E d1 \in BaseDescriptors : \E d2 \in Reorderings(d1) :
          cmd = [script |-> "none", name |-> "request", d1 |-> d1, d2 |-> d2]
    /\ raised = "none"
    /\ exitCode = 0
    /\ written = << >>
    /\ prevCall = Note(NoCall)
    /\ lastCall = Note(NoCall)
    /\ netCalls = 0
    /\ netFails = 0
    /\ limit = 0
    /\ batch_size = 0
    /\ refresh = FALSE
    /\ prefix = ""
    /\ fetched = 0
    /\ continue_token = << >>
    /\ gap_limit = 0
    /\ data = None
    /\ yielded = << >>
    /\ nreq = 0
    /\ allFull = TRUE
    /\ endedEarly = FALSE

\* cached_request(params, refresh=False), first for the one descriptor,
\* then for the other.
KeyedCall ==
    /\ cmd.name = "request"
    /\ runs < 2
    /\ \E params \in { IF runs = 0 THEN cmd.d1 ELSE cmd.d2 } :
       \E o \in Outcomes(params) :
       \E r \in { cached_request(cache, params, FALSE, o) } :
          /\ runs' = runs + 1
          /\ OneCall(r, AsEnded(r.status))
          /\ written' = << >>
          /\ NoWalk
          /\ UNCHANGED << cmd, docs >>

KeyNext == KeyedCall

KeySpec == KeyInit /\ [][KeyNext]_vars

----------------------------------------------------------------------------
(* Properties of the cache.                                                 *)

IsSearchKey(key) == Len(key) = 3 /\ HasParam(key[2], "list")

Entry(key) == Decode(cache[key])

\* C1: of two consecutive calls for the same descriptor, both with refresh
\* off, the second one issues no network request once the first has
\* returned, and what it returns is the body the first returned.
C1_SecondCallIsCacheHit ==
    ( /\ prevCall.status = "ok"
      /\ ~prevCall.refresh
      /\ lastCall.status # "none"
      /\ ~lastCall.refresh
      /\ lastCall.key = prevCall.key )
    => /\ ~lastCall.net
       /\ lastCall.status \in { "ok", "KeyboardInterrupt" }
       /\ lastCall.status = "ok" => lastCall.data = prevCall.data

C1_Witness ==
    /\ prevCall.status = "ok" /\ ~prevCall.refresh /\ prevCall.net
    /\ lastCall.status = "ok" /\ ~lastCall.refresh /\ ~lastCall.net
    /\ lastCall.key = prevCall.key
    /\ lastCall.data = prevCall.data

\* The step is an invocation whose last cached_request call failed in the
\* live fetch.
FailedFetchStep ==
    /\ \/ runs' # runs /\ cmd'.name \notin { "help", "list" }
       \/ status = "walking" /\ fetched < limit
    /\ lastCall'.net
    /\ lastCall'.status \in { "RequestException", "WikiError" }

\* C2: a call whose live fetch fails (transport, HTTP status, undecodable
\* body, error envelope) leaves the cache file of its key as it was, absent
\* or with its older content, whatever refresh is, and the exception reaches
\* the caller.
C2_FailedFetchLeavesCache ==
    [][ FailedFetchStep =>
          /\ lastCall'.key \in DOMAIN cache' <=> lastCall'.key \in DOMAIN cache
          /\ lastCall'.key \in DOMAIN cache =>
                cache'[lastCall'.key] = cache[lastCall'.key]
          /\ DOMAIN cache \subseteq DOMAIN cache'
          /\ raised' = lastCall'.status ]_vars

C2_Witness ==
    /\ lastCall.net /\ lastCall.refresh /\ lastCall.existed
    /\ lastCall.status = "WikiError"
    /\ lastCall.key \in DOMAIN cache
    /\ WellFormed(cache[lastCall.key])
    /\ raised = "WikiError"

\* C3: a call with refresh on issues a network request also when the cache
\* file exists; when it returns, the file holds the body it returned, and a
\* following call for the same descriptor with refresh off returns that body.
C3_RefreshBypassesAndStores ==
    /\ (lastCall.status # "none" /\ lastCall.refresh) => lastCall.net
    /\ (lastCall.status = "ok" /\ lastCall.refresh) =>
          /\ lastCall.key \in DOMAIN cache
          /\ WellFormed(cache[lastCall.key])
          /\ Entry(lastCall.key) = lastCall.data
    /\ ( /\ prevCall.status = "ok" /\ prevCall.refresh
         /\ lastCall.status = "ok" /\ ~lastCall.refresh
         /\ lastCall.key = prevCall.key )
       => ~lastCall.net /\ lastCall.data = prevCall.data

C3_Witness ==
    /\ prevCall.status = "ok" /\ lastCall.status = "ok"
    /\ lastCall.key = prevCall.key
    /\ lastCall.refresh /\ lastCall.existed /\ lastCall.net
    /\ lastCall.data # prevCall.data
    /\ Entry(lastCall.key) = lastCall.data

\* C6: a write cut short by the death of the process leaves no cache file
\* that a later call reads: after a killed invocation every file that exists
\* is a complete document, and no call fails to decode the file it reads.
C6_WritesAllOrNothing ==
    /\ lastCall.status # "ValueError"
    /\ status = "killed" => \A key \in DOMAIN cache : WellFormed(cache[key])

----------------------------------------------------------------------------
(* Properties of the commands.                                              *)

\* The results a search body holds: data.get("query", {}).get("search", []).
ResultsOf(body) ==
    IF "query" \in DOMAIN body /\ "search" \in DOMAIN body.query
    THEN body.query.search ELSE << >>

\* grab has ended after its search returned, with a pick given that selects
\* none of the results.
GrabPickOutOfRange ==
    /\ status = "exited"
    /\ cmd.name = "grab"
    /\ cmd.pick.given
    /\ IsSearchKey(lastCall.key)
    /\ lastCall.status = "ok"
    /\ \/ cmd.pick.n < 1
       \/ cmd.pick.n > Len(ResultsOf(lastCall.data))

\* C8: grab with a pick that is 0, negative or above the number of results,
\* the empty result list included, ends with exit code 1 and writes no
\* document.
C8_PickOutOfRangeIsError ==
    GrabPickOutOfRange => exitCode = 1 /\ written = << >>

TrailingNewlines(text) == Len(text) - Len(RStripNewlines(text))

\* The position of the atom that closes the metadata block.
BlockEnd(doc) == CHOOSE i \in DOMAIN doc : doc[i] = "}}"

\* C9: the document a save has written is the metadata block, one blank
\* line, the markup without its trailing newlines, and ends with exactly one
\* newline.
C9_DocumentShape ==
    (status = "exited" /\ written # << >>) =>
        LET doc    == docs[written]
            markup == lastCall.data.parse.wikitext["*"]
            body   == SubSeq(doc, BlockEnd(doc) + 1, Len(doc))
        IN /\ doc[1] = "{{Page metadata"
           /\ body = << NL, NL >> \o RStripNewlines(markup) \o << NL >>
           /\ TrailingNewlines(doc) = 1

----------------------------------------------------------------------------
(* Properties of the walk.                                                  *)

\* The sort key of the page a yielded record was made from.
RecordKey(rec) ==
    SortKey(PageAt(CHOOSE i \in 1..MaxPages : PageTitle(i) = rec.title))

\* The size the last request of the walk asked for, as sent.
SentGapLimit == ParamValue(lastCall.key[2], "gaplimit")

\* The records yielded before the last request of the walk.
YieldedBefore == Len(SelectSeq(yielded, LAMBDA rec : rec.batch < nreq))

\* C4: in a list with limit L > 0 and batch size B whose responses all held
\* as many pages as asked for, every request asks for min(B, L - fetched)
\* pages, the records of a batch come in ascending key order and no page
\* comes twice; when the walk returns without having met a response without
\* continuation below the limit, it has yielded exactly L records in
\* ceil(L / B) requests.
C4_FullBatchesWalk ==
    (cmd.name = "list" /\ limit > 0 /\ allFull) =>
        /\ nreq > 0 => SentGapLimit = Min(batch_size, limit - YieldedBefore)
        /\ \A i \in 1..(Len(yielded) - 1) :
              yielded[i].batch = yielded[i + 1].batch =>
                  RecordKey(yielded[i]) <= RecordKey(yielded[i + 1])
        /\ \A i, j \in DOMAIN yielded : i # j => yielded[i].pageid # yielded[j].pageid
        /\ (status = "exited" /\ raised = "none" /\ ~endedEarly) =>
              /\ Len(yielded) = limit
              /\ nreq = (limit + batch_size - 1) \div batch_size

C4_Witness ==
    /\ status = "exited" /\ cmd.name = "list" /\ raised = "none"
    /\ allFull /\ ~endedEarly
    /\ limit = MaxLimit
    /\ batch_size = MaxLimit - 1
    /\ nreq = 2
    /\ Len(yielded) = MaxLimit
    /\ yielded[1].batch = yielded[2].batch

\* C5: every walk ends: a list that has started eventually exits (or dies),
\* whatever the API answers.
C5_WalkTerminates == (status = "walking") ~> (status # "walking")

\* C7: whatever batch size the user gives, the batch size list works with is
\* between 1 and MAX_BATCH_SIZE, and so is the size every request of the
\* walk asks for.
C7_BatchSizeClamped ==
    cmd.name = "list" =>
        /\ batch_size \in 1..MAX_BATCH_SIZE
        /\ nreq > 0 => /\ gap_limit \in 1..MAX_BATCH_SIZE
                       /\ SentGapLimit = gap_limit

C7_Witness ==
    /\ cmd.name = "list"
    /\ cmd.batch_size > MAX_BATCH_SIZE
    /\ nreq > 0
    /\ SentGapLimit = MAX_BATCH_SIZE

----------------------------------------------------------------------------
(* Properties of the cache key.                                             *)

\* The two descriptors hold the same (name, value) pairs.
SameItems(d1, d2) ==
    { d1[i] : i \in DOMAIN d1 } = { d2[i] : i \in DOMAIN d2 }

\* C11: two descriptors with the same key/value pairs in different
\* insertion orders have the same cache key, so they address the same cache
\* entry: the calls made for them use one file name, and after a call for
\* the one has returned, a call for the other is answered from its file.
C11_KeyIgnoresInsertionOrder ==
    (cmd.name = "request" /\ SameItems(cmd.d1, cmd.d2)) =>
        /\ cache_key(cmd.d1) = cache_key(cmd.d2)
        /\ runs = 2 =>
              /\ prevCall.key = lastCall.key
              /\ prevCall.status = "ok" =>
                    /\ ~lastCall.net
                    /\ lastCall.status = "ok" => lastCall.data = prevCall.data

C11_Witness ==
    /\ cmd.name = "request"
    /\ cmd.d1 # cmd.d2
    /\ SameItems(cmd.d1, cmd.d2)
    /\ runs = 2
    /\ prevCall.status = "ok" /\ prevCall.net
    /\ lastCall.status = "ok" /\ ~lastCall.net
    /\ lastCall.key = prevCall.key
    /\ lastCall.data = prevCall.data

----------------------------------------------------------------------------
(* Properties of the continuation.                                          *)

\* The step is a turn of the loop of iter_pages: it issues a request.
RequestStep == status = "walking" /\ fetched < limit

\* The descriptor has every field of the continuation, with its value.
Carries(params, token) ==
    \A i \in DOMAIN token :
        /\ HasParam(params, token[i][1])
        /\ ParamValue(params, token[i][1]) = token[i][2]

\* C12: a walk that goes on after a response does so with the continuation
\* of that response; a response without continuation ends the walk in the
\* turn that received it, also below the limit, and no call is made when no
\* walk is going on; every request after the first carries the continuation
\* fields of the response before it.
C12_ContinuationCarried ==
    /\ [](( status = "walking" /\ nreq > 0 ) =>
            /\ lastCall.status = "ok"
            /\ TokenOf(lastCall.data) # << >>
            /\ continue_token = TokenOf(lastCall.data))
    /\ [][ /\ (RequestStep /\ lastCall'.status = "ok"
                 /\ TokenOf(lastCall'.data) = << >>) =>
                (status' = "exited" /\ raised' = "none")
           /\ (lastCall' # lastCall \/ prevCall' # prevCall \/ cache' # cache) =>
                RequestStep
           /\ (RequestStep /\ nreq > 0) =>
                Carries(lastCall'.key[2], TokenOf(lastCall.data)) ]_vars

C12_Witness ==
    /\ status = "exited" /\ cmd.name = "list" /\ raised = "none"
    /\ nreq = 2
    /\ prevCall.status = "ok"
    /\ TokenOf(prevCall.data) # << >>
    /\ Carries(lastCall.key[2], TokenOf(prevCall.data))
    /\ TokenOf(lastCall.data) = << >>
    /\ fetched < limit

====
